---- MODULE Spec2Model ----
(***************************************************************************)
(* Model of the rainbow prediction service.                                *)
(*                                                                         *)
(* Part I : the Weather Data Client of the caching variant                 *)
(*   (src/index.html, Go source from line 193): goroutines that each run   *)
(*   fetchJSONWithRetry(url, &target, 3) around fetchJSON, the shared      *)
(*   cache map and the sync.RWMutex that guards it.  SpecClient runs       *)
(*   NProcs goroutines concurrently on one request key; SpecRetry runs one *)
(*   goroutine over both request keys and every error return.              *)
(* Part II (SpecPredict): predictRainbow of the caching variant, scanning  *)
(*   one forecast series period by period.                                 *)
(* Part III (SpecOwm): the OpenWeatherMap variant (src/main.go): one       *)
(*   request handled by handleHeatmapData or handlePrediction, with        *)
(*   fetchWeatherData and calculateRainbowLikelihood.                      *)
(* Part IV (SpecGov): handlePrediction of the caching weather.gov variant, *)
(*   one request after another on goroutine 1: fetchPointMetadata,         *)
(*   fetchForecast (both through Part I), predictRainbow (Part II).        *)
(*                                                                         *)
(* Numbers.  Go computes the likelihood in float64.  The model computes    *)
(* the same products exactly, as integer numerators over LikelihoodDen.    *)
(* Angles are kept in quarter degrees (a minute of clock time moves the    *)
(* simplified sun angle by a quarter degree).                              *)
(* Coordinates, grid offsets and the grid step are kept in units of 1/6900  *)
(* of a degree, in which a radius given in hundredths of a mile divides by *)
(* 69 exactly; the radius is kept in hundredths of a mile.                 *)
(* Time.  The cache clock `now` counts minutes; the backoff sleeps are     *)
(* seconds and are recorded per call in `slept`; that time passes while a  *)
(* call sleeps or waits is the Tick action.                                *)
(***************************************************************************)
EXTENDS Integers, Sequences, FiniteSets, TLC

\* ------------------------------------------------------------ bounds
NProcs == 2
MaxTime == 30
TickStep == 15
MaxPeriods == 3
MaxCalls == 14
MaxOffset == 1380
MaxHourly == 2

\* ------------------------------------------------- program constants
maxRetries == 3
TTL == 15
CloudCeiling == 96
MaxSunAngle == 42
OptimalSunAngle == 21
Freezing == 32
MilesPerDegree == 69
DefaultResolution == 345

Procs == 1..NProcs

\* The two request keys the callers build: fetchPointMetadata's
\* "<baseURL>/points/<lat>,<lon>" and fetchForecast's forecastHourly URL.
URLs == {"points", "forecastHourly"}

\* The dynamic type behind the `target interface{}` argument: callers pass
\* &metadata (*PointMetadata) and &forecast (*ForecastData).
TargetType(u) == IF u = "points" THEN "*PointMetadata" ELSE "*ForecastData"

\* target.(*interface{}) : the single-value type assertion succeeds only when
\* the dynamic type is exactly *interface{}; otherwise it panics.
TypeAssertOK(t) == t = "*interface{}"

\* The error returns of fetchJSON after the cache lookup: client.Do failed,
\* status != 200 (404 apart from the other codes), io.ReadAll failed,
\* json.Unmarshal failed.
FetchErrors == {"do", "status", "status404", "read", "unmarshal"}

NoErr == [kind |-> "nil", attempt |-> 0]
NoEntry == [data |-> 0, expiresAt |-> -1]

\* What fetchJSONWithRetry has handed to its caller: nothing yet, a nil error,
\* an error value, or a panic unwinding through it.
NotReturned == [msg |-> "not returned", wraps |-> NoErr]
Nil == [msg |-> "nil", wraps |-> NoErr]
Panicked == [msg |-> "panic: interface conversion", wraps |-> NoErr]

VARIABLES
  \* ---- Part I
  cache,        \* map[string]CacheEntry : URL -> entry, NoEntry when the key is absent
  now,          \* time.Now(), minutes
  readerCount,  \* sync.RWMutex: number of goroutines holding the read lock
  wOwner,       \* sync.RWMutex: goroutine that called Lock() and has not yet Unlock()ed, 0 if none
  pc,           \* per goroutine: position in fetchJSONWithRetry / fetchJSON
  url,          \* per goroutine: the url argument
  i,            \* per goroutine: loop variable of fetchJSONWithRetry
  err,          \* per goroutine: `err` of fetchJSONWithRetry
  entry,        \* per goroutine: `entry` read by the lookup, or the CacheEntry being stored
  target,       \* per goroutine: what the caller's target variable holds
  result,       \* per goroutine: what fetchJSONWithRetry returned (or that it panicked)
  look,         \* per goroutine: what the clock and the map said at the last lookup
  reqs,         \* per goroutine: client.Do calls made by the current fetchJSON call
  outs,         \* per goroutine: outcome of every fetchJSON call of this run, in order
  slept,        \* per goroutine: duration (s) of every time.Sleep of this run, in order
  \* ---- Part II
  forecast,       \* forecast.Properties.Periods
  idx,            \* number of periods the range loop has consumed
  bestLikelihood, \* numerator over LikelihoodDen
  bestTime,       \* time.Time
  prediction,     \* the returned RainbowPrediction, or NoPrediction while scanning
  \* ---- Part III
  req,            \* the request: path and raw parameters
  upstream,       \* what the weather provider answers to a successful call of this request
  hpc,            \* position of the handler
  status,         \* HTTP status written, 0 while none
  body,           \* payload written
  calls,          \* every fetchWeatherData call so far: coordinates and whether it succeeded
  radiusDegrees,  \* handleHeatmapData locals
  resolution,
  dlat,
  dlon,
  heatmapData,
  hourIdx,        \* handlePrediction (main.go): hourly entries consumed
  owmBest,        \* handlePrediction (main.go): bestLikelihood, numerator over OwmDen
  owmBestTime,    \* handlePrediction (main.go): bestTime, as the Dt of the entry (0: zero time)
  \* ---- Part IV (with req, hpc, status and body of Part III)
  metadata,       \* handlePrediction (weather.gov): the decoded PointMetadata
  herr            \* handlePrediction (weather.gov): the err a fetch function returned

clientVars == <<cache, now, readerCount, wOwner, pc, url, i, err, entry, target,
                result, look, reqs, outs, slept>>
predictVars == <<forecast, idx, bestLikelihood, bestTime, prediction>>
owmVars == <<req, upstream, hpc, status, body, calls, radiusDegrees, resolution, dlat,
             dlon, heatmapData, hourIdx, owmBest, owmBestTime>>
govVars == <<metadata, herr>>
vars == <<clientVars, predictVars, owmVars, govVars>>

\* =====================================================================
\* Part I : fetchJSONWithRetry / fetchJSON / cache
\* =====================================================================

CacheHitAtExpiry(e, t) == e # NoEntry /\ t <= e.expiresAt

\* ok && time.Now().Before(entry.ExpiresAt)
CacheHit(e, t) == e # NoEntry /\ t < e.expiresAt

MaxRetriesErrorUnwrapped(e) == [msg |-> "max retries reached", wraps |-> NoErr]

\* fmt.Errorf("max retries reached: %w", err)
MaxRetriesError(e) == [msg |-> "max retries reached", wraps |-> e]

\* time.Duration(i+1) * time.Second
Backoff(k) == k + 1

ExpiresAtTwice(t) == t + TTL + TTL

\* time.Now().Add(15 * time.Minute)
ExpiresAt(t) == t + TTL

LoopContinuesOneMore(k) == k <= maxRetries

\* for i := 0; i < maxRetries; i++
LoopContinues(k) == k < maxRetries

ClientIdle ==
  /\ cache = [u \in URLs |-> NoEntry]
  /\ now = 0
  /\ readerCount = 0
  /\ wOwner = 0
  /\ pc = [p \in Procs |-> "idle"]
  /\ url = [p \in Procs |-> "points"]
  /\ i = [p \in Procs |-> 0]
  /\ err = [p \in Procs |-> NoErr]
  /\ entry = [p \in Procs |-> NoEntry]
  /\ target = [p \in Procs |-> "zero"]
  /\ result = [p \in Procs |-> NotReturned]
  /\ look = [p \in Procs |-> "none"]
  /\ reqs = [p \in Procs |-> 0]
  /\ outs = [p \in Procs |-> <<>>]
  /\ slept = [p \in Procs |-> <<>>]

\* A handler goroutine calls fetchJSONWithRetry(u, &target, 3): var err error;
\* i := 0; the first loop test.
Call(p, u) ==
  /\ pc[p] = "idle"
  /\ url' = [url EXCEPT ![p] = u]
  /\ IF LoopContinues(0)
       THEN /\ pc' = [pc EXCEPT ![p] = "rlock"]
            /\ result' = result
       ELSE /\ pc' = [pc EXCEPT ![p] = "done"]
            /\ result' = [result EXCEPT ![p] = MaxRetriesError(err[p])]
  /\ UNCHANGED <<cache, now, readerCount, wOwner, i, err, entry, target, look, reqs,
                 outs, slept>>
  /\ UNCHANGED <<predictVars, owmVars, govVars>>

\* fetchJSON entry: mutex.RLock().  A reader waits while a writer holds or
\* has requested the lock.
RLock(p) ==
  /\ pc[p] = "rlock"
  /\ wOwner = 0
  /\ readerCount' = readerCount + 1
  /\ pc' = [pc EXCEPT ![p] = "lookup"]
  /\ look' = [look EXCEPT ![p] = "none"]
  /\ reqs' = [reqs EXCEPT ![p] = 0]
  /\ UNCHANGED <<cache, now, wOwner, url, i, err, entry, target, result, outs, slept>>
  /\ UNCHANGED <<predictVars, owmVars, govVars>>

AfterRUnlockLeaked(n) == n

\* mutex.RUnlock()
AfterRUnlock(n) == n - 1

\* entry, ok := cache[url]; the expiry test; mutex.RUnlock() on either branch.
Lookup(p) ==
  /\ pc[p] = "lookup"
  /\ LET e == cache[url[p]] IN
       /\ look' = [look EXCEPT ![p] =
                     IF e = NoEntry THEN "absent"
                     ELSE IF now >= e.expiresAt THEN "expired" ELSE "fresh"]
       /\ IF CacheHit(e, now)
            THEN /\ pc' = [pc EXCEPT ![p] = "hit"]
                 /\ entry' = [entry EXCEPT ![p] = e]
            ELSE /\ pc' = [pc EXCEPT ![p] = "fetch"]
                 /\ entry' = entry
  /\ readerCount' = AfterRUnlock(readerCount)
  /\ UNCHANGED <<cache, now, wOwner, url, i, err, target, result, reqs, outs, slept>>
  /\ UNCHANGED <<predictVars, owmVars, govVars>>

\* *target.(*interface{}) = entry.Data; return nil
\* A failed assertion panics; the panic unwinds fetchJSONWithRetry and the
\* handler (net/http recovers it and drops the connection).
Hit(p) ==
  /\ pc[p] = "hit"
  /\ IF TypeAssertOK(TargetType(url[p]))
       THEN /\ target' = [target EXCEPT ![p] = entry[p].data]
            /\ err' = [err EXCEPT ![p] = NoErr]
            /\ outs' = [outs EXCEPT ![p] = Append(@, "nil")]
            /\ pc' = [pc EXCEPT ![p] = "ret"]
            /\ result' = result
       ELSE /\ outs' = [outs EXCEPT ![p] = Append(@, "panic")]
            /\ result' = [result EXCEPT ![p] = Panicked]
            /\ pc' = [pc EXCEPT ![p] = "done"]
            /\ UNCHANGED <<target, err>>
  /\ UNCHANGED <<cache, now, readerCount, wOwner, url, i, entry, look, reqs, slept>>
  /\ UNCHANGED <<predictVars, owmVars, govVars>>

\* http.NewRequest (the keys are well-formed URLs, so it succeeds), client.Do,
\* the status test, io.ReadAll, json.Unmarshal(body, target).
Fetch(p, o) ==
  /\ pc[p] = "fetch"
  /\ reqs' = [reqs EXCEPT ![p] = @ + 1]
  /\ IF o = "ok"
       THEN /\ target' = [target EXCEPT ![p] = "decoded"]
            /\ pc' = [pc EXCEPT ![p] = "wlock"]
            /\ UNCHANGED <<err, outs>>
       ELSE /\ err' = [err EXCEPT ![p] = [kind |-> o, attempt |-> i[p] + 1]]
            /\ outs' = [outs EXCEPT ![p] = Append(@, o)]
            /\ pc' = [pc EXCEPT ![p] = "ret"]
            /\ target' = target
  /\ UNCHANGED <<cache, now, readerCount, wOwner, url, i, entry, result, look, slept>>
  /\ UNCHANGED <<predictVars, owmVars, govVars>>

\* mutex.Lock(), first half: the writer announces itself (later RLock and
\* Lock calls wait from here on).
CanRequestLock == wOwner = 0

LockRequest(p) ==
  /\ pc[p] = "wlock"
  /\ CanRequestLock
  /\ wOwner' = p
  /\ pc' = [pc EXCEPT ![p] = "wwait"]
  /\ UNCHANGED <<cache, now, readerCount, url, i, err, entry, target, result, look,
                 reqs, outs, slept>>
  /\ UNCHANGED <<predictVars, owmVars, govVars>>

CanEnterLockWithReaders == TRUE

\* mutex.Lock(), second half: the writer enters once the readers have left.
CanEnterLock == readerCount = 0

LockEnter(p) ==
  /\ pc[p] = "wwait"
  /\ CanEnterLock
  /\ pc' = [pc EXCEPT ![p] = "insert"]
  /\ UNCHANGED <<cache, now, readerCount, wOwner, url, i, err, entry, target, result,
                 look, reqs, outs, slept>>
  /\ UNCHANGED <<predictVars, owmVars, govVars>>

\* CacheEntry{Data: target, ExpiresAt: time.Now().Add(15 * time.Minute)} is
\* built, and the map slot for url receives its Data word.  The stored Data is
\* the pointer the caller passed, identified here by the calling goroutine.
InsertData(p) ==
  /\ pc[p] = "insert"
  /\ LET e == [data |-> p, expiresAt |-> ExpiresAt(now)] IN
       /\ entry' = [entry EXCEPT ![p] = e]
       /\ cache' = [cache EXCEPT ![url[p]] = [data |-> e.data, expiresAt |-> @.expiresAt]]
  /\ pc' = [pc EXCEPT ![p] = "insert2"]
  /\ UNCHANGED <<now, readerCount, wOwner, url, i, err, target, result, look, reqs,
                 outs, slept>>
  /\ UNCHANGED <<predictVars, owmVars, govVars>>

\* The map slot receives the ExpiresAt word; mutex.Unlock(); return nil.
InsertExpiry(p) ==
  /\ pc[p] = "insert2"
  /\ cache' = [cache EXCEPT ![url[p]] = [data |-> @.data, expiresAt |-> entry[p].expiresAt]]
  /\ wOwner' = 0
  /\ err' = [err EXCEPT ![p] = NoErr]
  /\ outs' = [outs EXCEPT ![p] = Append(@, "nil")]
  /\ pc' = [pc EXCEPT ![p] = "ret"]
  /\ UNCHANGED <<now, readerCount, url, i, entry, target, result, look, reqs, slept>>
  /\ UNCHANGED <<predictVars, owmVars, govVars>>

\* err = fetchJSON(url, target); if err == nil { return nil }; logger.Error(...)
RetryCheck(p) ==
  /\ pc[p] = "ret"
  /\ IF err[p] = NoErr
       THEN /\ result' = [result EXCEPT ![p] = Nil]
            /\ pc' = [pc EXCEPT ![p] = "done"]
       ELSE /\ pc' = [pc EXCEPT ![p] = "sleep"]
            /\ result' = result
  /\ UNCHANGED <<cache, now, readerCount, wOwner, url, i, err, entry, target, look,
                 reqs, outs, slept>>
  /\ UNCHANGED <<predictVars, owmVars, govVars>>

\* time.Sleep(time.Duration(i+1) * time.Second); i++; the loop test; after the
\* loop: return fmt.Errorf("max retries reached: %w", err)
Sleep(p) ==
  /\ pc[p] = "sleep"
  /\ slept' = [slept EXCEPT ![p] = Append(@, Backoff(i[p]))]
  /\ i' = [i EXCEPT ![p] = @ + 1]
  /\ IF LoopContinues(i[p] + 1)
       THEN /\ pc' = [pc EXCEPT ![p] = "rlock"]
            /\ result' = result
       ELSE /\ pc' = [pc EXCEPT ![p] = "done"]
            /\ result' = [result EXCEPT ![p] = MaxRetriesError(err[p])]
  /\ UNCHANGED <<cache, now, readerCount, wOwner, url, err, entry, target, look,
                 reqs, outs>>
  /\ UNCHANGED <<predictVars, owmVars, govVars>>

\* The caller takes the result and the call's frame is gone; the goroutine is
\* free for its next call.
Return(p) ==
  /\ pc[p] = "done"
  /\ pc' = [pc EXCEPT ![p] = "idle"]
  /\ url' = [url EXCEPT ![p] = "points"]
  /\ i' = [i EXCEPT ![p] = 0]
  /\ err' = [err EXCEPT ![p] = NoErr]
  /\ entry' = [entry EXCEPT ![p] = NoEntry]
  /\ target' = [target EXCEPT ![p] = "zero"]
  /\ result' = [result EXCEPT ![p] = NotReturned]
  /\ look' = [look EXCEPT ![p] = "none"]
  /\ reqs' = [reqs EXCEPT ![p] = 0]
  /\ outs' = [outs EXCEPT ![p] = <<>>]
  /\ slept' = [slept EXCEPT ![p] = <<>>]
  /\ UNCHANGED <<cache, now, readerCount, wOwner>>
  /\ UNCHANGED <<predictVars, owmVars, govVars>>

\* Wall-clock time passes.
Tick ==
  /\ now + TickStep <= MaxTime
  /\ now' = now + TickStep
  /\ UNCHANGED <<cache, readerCount, wOwner, pc, url, i, err, entry, target, result,
                 look, reqs, outs, slept>>
  /\ UNCHANGED <<predictVars, owmVars, govVars>>

\* The inputs of the concurrent runs: every goroutine asks for the same
\* request key, and a failing attempt fails on the status test.
ConcurrentErrors == {"status"}
ConcurrentURLs == {"points"}

NextClient ==
  \/ \E p \in Procs, u \in ConcurrentURLs : Call(p, u)
  \/ \E p \in Procs : RLock(p)
  \/ \E p \in Procs : Lookup(p)
  \/ \E p \in Procs : Hit(p)
  \/ \E p \in Procs, o \in {"ok"} \cup ConcurrentErrors : Fetch(p, o)
  \/ \E p \in Procs : LockRequest(p)
  \/ \E p \in Procs : LockEnter(p)
  \/ \E p \in Procs : InsertData(p)
  \/ \E p \in Procs : InsertExpiry(p)
  \/ \E p \in Procs : RetryCheck(p)
  \/ \E p \in Procs : Sleep(p)
  \/ \E p \in Procs : Return(p)
  \/ Tick

NextRetry ==
  \/ \E u \in URLs : Call(1, u)
  \/ RLock(1)
  \/ Lookup(1)
  \/ Hit(1)
  \/ \E o \in {"ok"} \cup FetchErrors : Fetch(1, o)
  \/ LockRequest(1)
  \/ LockEnter(1)
  \/ InsertData(1)
  \/ InsertExpiry(1)
  \/ RetryCheck(1)
  \/ Sleep(1)
  \/ Return(1)
  \/ Tick

\* =====================================================================
\* Properties of Part I
\* =====================================================================
Last(s) == s[Len(s)]
AllFailed(s) == \A k \in 1..Len(s) : s[k] \in FetchErrors
InLookupCS(p) == pc[p] = "lookup"
InInsertCS(p) == pc[p] \in {"insert", "insert2"}

\* C1: a fetchJSON call whose lookup finds a present, unexpired entry returns
\* nil, leaves the cached payload in the caller's target and has made no
\* network request.  (Violated: on a hit the type assertion panics.)
C1_CacheHitDelivers ==
  \A p \in Procs :
    (look[p] = "fresh" /\ pc[p] \in {"ret", "done"}) =>
      /\ Last(outs[p]) = "nil"
      /\ result[p] # Panicked
      /\ target[p] = entry[p].data
      /\ reqs[p] = 0

\* C2: fetchJSONWithRetry(url, target, 3) makes at most 3 attempts; every
\* attempt that is followed by another attempt failed (so nothing is tried
\* after a success); and a run whose last attempt succeeded returns nil.
C2_RetryStopsAtFirstSuccess ==
  \A p \in Procs :
    /\ Len(outs[p]) <= 3
    /\ \A k \in 1..(Len(outs[p]) - 1) : outs[p][k] \in FetchErrors
    /\ (pc[p] = "done" /\ outs[p] # <<>> /\ Last(outs[p]) = "nil") => result[p] = Nil
    /\ result[p] = Nil => (outs[p] # <<>> /\ Last(outs[p]) = "nil")

C2_TwoFailuresThenSuccess ==
  \E p \in Procs :
    /\ pc[p] = "done"
    /\ result[p] = Nil
    /\ Len(outs[p]) = 3
    /\ outs[p][1] \in FetchErrors /\ outs[p][2] \in FetchErrors /\ outs[p][3] = "nil"

\* C3: when all 3 attempts fail, fetchJSONWithRetry returns the error
\* "max retries reached" wrapping the error of the third attempt, never nil.
C3_ExhaustedWrapsLastError ==
  \A p \in Procs :
    (pc[p] = "done" /\ Len(outs[p]) = 3 /\ AllFailed(outs[p])) =>
      /\ result[p] # Nil
      /\ result[p] = [msg |-> "max retries reached",
                      wraps |-> [kind |-> outs[p][3], attempt |-> 3]]

C3_ThreeFailures ==
  \E p \in Procs :
    /\ pc[p] = "done"
    /\ Len(outs[p]) = 3 /\ AllFailed(outs[p])
    /\ outs[p][1] # outs[p][3] /\ outs[p][2] # outs[p][3]
    /\ result[p].wraps.kind = outs[p][3]

\* C4: a run in which all 3 attempts fail has slept 1 s and then 2 s, and
\* nothing after the third failure.  (Violated: the code also sleeps 3 s
\* after the last attempt.)
C4_NoSleepAfterLastAttempt ==
  \A p \in Procs :
    (pc[p] = "done" /\ Len(outs[p]) = 3 /\ AllFailed(outs[p])) => slept[p] = <<1, 2>>

\* C5: a lookup made when now >= ExpiresAt never takes the hit branch; the
\* call goes on to the network and issues exactly one request.
C5_ExpiredNeverServed ==
  \A p \in Procs :
    look[p] = "expired" =>
      /\ pc[p] # "hit"
      /\ (pc[p] = "fetch" /\ reqs[p] = 0) \/ reqs[p] = 1

C5_RefetchAtExpiryInstant ==
  \E p \in Procs :
    /\ look[p] = "expired"
    /\ pc[p] = "wlock"
    /\ reqs[p] = 1
    /\ cache[url[p]] # NoEntry /\ cache[url[p]].expiresAt = now

\* C6: no goroutine is between Lock and Unlock while another is between
\* RLock and RUnlock or between Lock and Unlock (readers may overlap each
\* other); and the insert that finishes leaves exactly the CacheEntry it
\* built in the map, both fields, whatever the other goroutines did meanwhile.
C6_Exclusion ==
  \A p, q \in Procs :
    (p # q /\ InInsertCS(p)) => ~(InLookupCS(q) \/ InInsertCS(q))

C6_InsertStoresWholeEntry ==
  \A p \in Procs :
    (pc[p] = "insert2" /\ pc'[p] = "ret") => cache'[url[p]] = entry[p]

C6_CacheLockDiscipline == [](C6_Exclusion) /\ [][C6_InsertStoresWholeEntry]_vars

C6_TwoConcurrentInsertsDone ==
  \E p, q \in Procs :
    /\ p # q /\ url[p] = url[q]
    /\ pc[p] = "ret" /\ pc[q] = "ret"
    /\ reqs[p] = 1 /\ reqs[q] = 1
    /\ Last(outs[p]) = "nil" /\ Last(outs[q]) = "nil"
    /\ entry[p] # entry[q]
    /\ cache[url[p]] = entry[q]

C6_TwoLookupsOverlap == \E p, q \in Procs : p # q /\ InLookupCS(p) /\ InLookupCS(q)


\* C21: the cache changes only in the insert of a call whose network fetch
\* succeeded and decoded: only the entry of that call's URL changes, and what
\* it ends up with is the caller's data with expiry = time of insertion + 15
\* minutes.  Failed attempts and cache hits change no entry and no expiry.
C21_CacheChangesOnlyByInsert ==
  [][cache' # cache =>
       \E p \in Procs :
         /\ pc[p] \in {"insert", "insert2"}
         /\ target[p] = "decoded"
         /\ reqs[p] > 0
         /\ \A u \in URLs \ {url[p]} : cache'[u] = cache[u]
         /\ cache'[url[p]].data = p
         /\ pc[p] = "insert" => entry'[p].expiresAt = now + TTL
         /\ pc[p] = "insert2" =>
              cache'[url[p]] = [data |-> p, expiresAt |-> entry[p].expiresAt]]_vars

\* Both entries are cached, inserted at different times; the later insert
\* left the earlier entry as it was.
C21_TwoEntriesDifferentExpiry ==
  /\ cache["points"] # NoEntry
  /\ cache["forecastHourly"] # NoEntry
  /\ cache["points"].expiresAt # cache["forecastHourly"].expiresAt
  /\ pc[1] = "ret"
  /\ Last(outs[1]) = "nil"

\* C22: of the concurrent calls for one URL that start on an empty cache,
\* at most one issues a network request within the first 15 minutes: no two
\* calls have both found the entry absent and both sent a request.
\* (Violated: a call that misses always sends its own request, whether or
\* not another call for the same URL is in flight.)
C22_AtMostOneRequestInFlight ==
  now < TTL =>
    ~\E p, q \in Procs :
        /\ p # q
        /\ url[p] = url[q]
        /\ look[p] = "absent" /\ look[q] = "absent"
        /\ reqs[p] > 0 /\ reqs[q] > 0

HoldsRead(p) == pc[p] = "lookup"

HoldsWrite(p) == pc[p] \in {"insert", "insert2"}

\* The lock's state is that of the calls inside fetchJSON's two locked
\* regions: a call at its network request, asleep, returning, returned or
\* unwound by a fault accounts for no reader and is not the writer.
C23_LockFollowsPositions ==
  /\ readerCount = Cardinality({p \in Procs : HoldsRead(p)})
  /\ wOwner # 0 => pc[wOwner] \in {"wwait", "insert", "insert2"}
  /\ \A p \in Procs : (pc[p] = "wwait" \/ HoldsWrite(p)) => wOwner = p
  /\ \A p \in Procs :
       pc[p] \in {"fetch", "sleep", "hit", "ret", "done", "idle"} =>
         ~HoldsRead(p) /\ ~HoldsWrite(p) /\ wOwner # p

\* C23: the cache lock is never held during a network request or a backoff
\* sleep and is released on every way out of fetchJSON, and under fair
\* scheduling every call waiting to look up or to insert gets the lock.
C23_LockReleasedAndAcquired ==
  /\ []C23_LockFollowsPositions
  /\ \A p \in Procs : (pc[p] = "rlock") ~> HoldsRead(p)
  /\ \A p \in Procs : (pc[p] \in {"wlock", "wwait"}) ~> HoldsWrite(p)

\* A writer has announced itself and waits for a reader that is still in
\* its lookup, while another call is at its network request.
C23_WriterWaitsForReader ==
  \E p, q \in Procs :
    /\ pc[p] = "wwait"
    /\ HoldsRead(q)
    /\ readerCount > 0

\* =====================================================================
\* Part II : predictRainbow (caching variant)
\* =====================================================================
Abs(x) == IF x < 0 THEN -x ELSE x

\* One element of forecast.Properties.Periods.  `parses` says whether
\* time.Parse(time.RFC3339, period.StartTime) succeeds; month, hour and minute
\* are those of the parsed time.
Period(ok, mo, h, mi, cc, pp, temp) ==
  [parses |-> ok, month |-> mo, hour |-> h, minute |-> mi,
   cloudCover |-> cc, precip |-> pp, temperature |-> temp]

PeriodSamples ==
  { Period(TRUE, 6, 18, 0, 50, 60, 50),    \* June 18:00, sun angle 0
    Period(TRUE, 12, 3, 0, 50, 60, 50),    \* December 03:00, sun angle -45
    Period(TRUE, 6, 16, 36, 0, 100, 50),   \* June 16:36, sun angle 21, clear, certain rain
    Period(TRUE, 6, 17, 0, 50, 60, 50),    \* June 17:00, sun angle 15
    Period(TRUE, 6, 17, 0, 40, 50, 50),    \* same product of factors as the one before
    Period(TRUE, 12, 7, 24, 50, 60, 50),   \* December 07:24, sun angle 21
    Period(TRUE, 12, 12, 0, 50, 60, 50),   \* noon, sun angle 90
    Period(TRUE, 6, 17, 0, 97, 60, 50),    \* overcast
    Period(TRUE, 6, 17, 0, 50, 0, 50),     \* no precipitation
    Period(TRUE, 6, 17, 0, 50, 60, 32),    \* freezing
    Period(FALSE, 6, 17, 0, 50, 60, 50) }  \* StartTime is not RFC3339

Series == UNION { [1..n -> PeriodSamples] : n \in 0..MaxPeriods }

\* The parsed StartTime of the k-th period.  A series is chronological with
\* distinct timestamps: the k-th period lies on day k.
StartTime(period, k) ==
  [day |-> k, month |-> period.month, hour |-> period.hour, minute |-> period.minute]

\* var bestTime time.Time : the zero time, January 1 of year 1, 00:00.
ZeroTime == [day |-> 0, month |-> 1, hour |-> 0, minute |-> 0]

\* hour := float64(t.Hour()) + float64(t.Minute())/60.0
\* return 90 - math.Abs(hour-12)*15            (result in quarter degrees)
calculateSunAngle(t) == 360 - Abs(60 * t.hour + t.minute - 720)

\* if sunAngle < 0 || sunAngle > 42 { continue }
SunAngleOutOfBand(a) == a < 0 \/ a > 4 * MaxSunAngle

TooCloudyNever(period) == FALSE

\* if period.CloudCover > 96 { continue }
TooCloudy(period) == period.cloudCover > CloudCeiling

\* hasPrecipitation := period.ProbabilityOfPrecipitation.Value > 0 && period.Temperature > 32
hasPrecipitation(period) == period.precip > 0 /\ period.temperature > Freezing

\* angleFactor := 1 - math.Abs(sunAngle-21)/21        (numerator over 4 * 21)
angleFactor(a) == 4 * OptimalSunAngle - Abs(a - 4 * OptimalSunAngle)

\* if hour >= 16 && hour <= 22 { likelihood *= 1.5 }   (numerator over 10)
hourFactor(t) == IF t.hour >= 16 /\ t.hour <= 22 THEN 15 ELSE 10

\* if month >= time.April && month <= time.September { likelihood *= 1.2 }  (over 10)
monthFactor(t) == IF t.month >= 4 /\ t.month <= 9 THEN 12 ELSE 10

\* The denominator all likelihood numerators share: 100 (cloud) * 100
\* (precipitation) * 84 (angle) * 10 (hour) * 10 (month).
LikelihoodDen == 100 * 100 * (4 * OptimalSunAngle) * 10 * 10

\* likelihood := 1.0; *= (100-cloudCover)/100; *= precip/100; *= angleFactor;
\* then the hour and month boosts.
Likelihood(period, t) ==
  (100 - period.cloudCover) * period.precip * angleFactor(calculateSunAngle(t))
    * hourFactor(t) * monthFactor(t)

BetterOrEqual(likelihood, best) == likelihood >= best

\* if likelihood > bestLikelihood
Better(likelihood, best) == likelihood > best

NoPrediction == [likelihood |-> -1, time |-> ZeroTime]

ParseFailsNever(period) == FALSE

\* startTime, err := time.Parse(time.RFC3339, period.StartTime); err != nil
ParseFails(period) == ~period.parses

\* One iteration of `for _, period := range forecast.Properties.Periods`.
ScanPeriod ==
  /\ prediction = NoPrediction
  /\ idx < Len(forecast)
  /\ idx' = idx + 1
  /\ LET period == forecast[idx + 1]
         startTime == StartTime(period, idx + 1)
         sunAngle == calculateSunAngle(startTime)
         likelihood == Likelihood(period, startTime)
     IN IF \/ ParseFails(period)
           \/ SunAngleOutOfBand(sunAngle)
           \/ TooCloudy(period)
           \/ ~hasPrecipitation(period)
          THEN UNCHANGED <<bestLikelihood, bestTime>>
          ELSE IF Better(likelihood, bestLikelihood)
                 THEN /\ bestLikelihood' = likelihood
                      /\ bestTime' = startTime
                 ELSE UNCHANGED <<bestLikelihood, bestTime>>
  /\ UNCHANGED <<forecast, prediction>>
  /\ UNCHANGED <<clientVars, owmVars, govVars>>

\* return RainbowPrediction{Likelihood: bestLikelihood, ..., Time: bestTime}
ReturnPrediction ==
  /\ prediction = NoPrediction
  /\ idx = Len(forecast)
  /\ prediction' = [likelihood |-> bestLikelihood, time |-> bestTime]
  /\ UNCHANGED <<forecast, idx, bestLikelihood, bestTime>>
  /\ UNCHANGED <<clientVars, owmVars, govVars>>

NextPredict ==
  \/ ScanPeriod
  \/ ReturnPrediction

PredictIdle ==
  /\ forecast = <<>>
  /\ idx = 0
  /\ bestLikelihood = 0
  /\ bestTime = ZeroTime
  /\ prediction = NoPrediction

\* =====================================================================
\* Properties of Part II
\* =====================================================================
Max(S) == CHOOSE x \in S : \A y \in S : y <= x
Min(S) == CHOOSE x \in S : \A y \in S : x <= y

TimeOf(k) == StartTime(forecast[k], k)

\* The eligibility filters as the specification lists them, angles in
\* quarter degrees.
FailsFilter(k) ==
  \/ forecast[k].cloudCover > 96
  \/ calculateSunAngle(TimeOf(k)) < 0
  \/ calculateSunAngle(TimeOf(k)) > 4 * 42
  \/ forecast[k].precip = 0
  \/ forecast[k].temperature <= 32

\* The score of the k-th period: 0 when it is skipped.
ScoreOf(k) ==
  IF forecast[k].parses /\ ~FailsFilter(k) THEN Likelihood(forecast[k], TimeOf(k)) ELSE 0

Returned == prediction # NoPrediction

JuneEvening == Period(TRUE, 6, 18, 0, 50, 60, 50)
DecemberNight == Period(TRUE, 12, 3, 0, 50, 60, 50)

\* C7: after any number of periods, if the largest score seen is positive the
\* retained best is the first period (in series order) that attains it, and
\* that is the timestamp and likelihood returned.
C7_FirstMaximumKept ==
  /\ idx > 0 =>
       LET M == Max({ScoreOf(k) : k \in 1..idx})
           first == Min({k \in 1..idx : ScoreOf(k) = M})
       IN M > 0 => (bestLikelihood = M /\ bestTime = TimeOf(first))
  /\ Returned => prediction = [likelihood |-> bestLikelihood, time |-> bestTime]

C7_TieKeepsEarlier ==
  /\ Returned
  /\ \E k1, k2 \in 1..Len(forecast) :
       /\ k1 < k2
       /\ forecast[k1] # forecast[k2]
       /\ ScoreOf(k1) > 0
       /\ ScoreOf(k1) = ScoreOf(k2)
       /\ \A k \in 1..Len(forecast) : ScoreOf(k) <= ScoreOf(k1)
       /\ \A k \in 1..(k1 - 1) : ScoreOf(k) < ScoreOf(k1)
       /\ prediction.time = TimeOf(k1)

\* C8: the likelihood of the returned Prediction lies in [0,1] (cloud cover
\* and precipitation probability of every sample are percentages).
\* (Violated: nothing clamps the product, which reaches 1.8.)
C8_LikelihoodInUnitInterval ==
  Returned => (prediction.likelihood >= 0 /\ prediction.likelihood <= LikelihoodDen)

\* C9: the retained best is either still the zero value or the time and
\* likelihood of a period that passed every eligibility filter: a period that
\* fails one is never the one returned and never raises the likelihood.
C9_FilteredNeverChosen ==
  /\ \/ bestTime = ZeroTime /\ bestLikelihood = 0
     \/ \E k \in 1..idx :
          /\ forecast[k].parses /\ ~FailsFilter(k)
          /\ bestTime = TimeOf(k)
          /\ bestLikelihood = Likelihood(forecast[k], TimeOf(k))
  /\ Returned => prediction = [likelihood |-> bestLikelihood, time |-> bestTime]

C9_FilteredWouldHaveWon ==
  /\ Returned
  /\ prediction.likelihood > 0
  /\ \E k \in 1..Len(forecast) :
       /\ forecast[k].parses /\ FailsFilter(k)
       /\ Likelihood(forecast[k], TimeOf(k)) > prediction.likelihood

\* C10: the June 18:00 period scores strictly higher than the otherwise
\* identical December 03:00 period, and the series of these two yields a
\* positive likelihood at the June 18:00 timestamp.  (Violated: the angle
\* factor is 0 at 18:00, so both periods score 0.)
C10_JuneEveningBeatsDecemberNight ==
  (Returned /\ forecast = <<JuneEvening, DecemberNight>>) =>
    /\ ScoreOf(1) > ScoreOf(2)
    /\ prediction.likelihood > 0
    /\ prediction.time = TimeOf(1)

\* The score of the k-th period by the filters and factors alone.
RefScore(k) == IF FailsFilter(k) THEN 0 ELSE Likelihood(forecast[k], TimeOf(k))

Parseable == {k \in 1..Len(forecast) : forecast[k].parses}

\* C17: predictRainbow skips every period whose start time does not parse:
\* what it returns is the prediction for the series with those periods
\* removed, that is the first parseable period of the highest score, or the
\* zero value when no parseable period scores above 0.
C17_UnparseableSkipped ==
  Returned =>
    LET best == Max({RefScore(k) : k \in Parseable} \cup {0})
    IN /\ prediction.likelihood = best
       /\ prediction.time =
            IF best > 0
              THEN TimeOf(Min({k \in Parseable : RefScore(k) = best}))
              ELSE ZeroTime

\* A returned prediction for a series holding an unparseable period that
\* would have outscored the period returned.
C17_UnparseableWouldHaveWon ==
  /\ Returned
  /\ prediction.likelihood > 0
  /\ \E k \in 1..Len(forecast) :
       ~forecast[k].parses /\ RefScore(k) > prediction.likelihood

\* =====================================================================
\* Part III: the OpenWeatherMap variant (src/main.go)
\* =====================================================================

\* A raw request parameter as strconv.ParseFloat sees it: a number, or a
\* missing or unparseable text, for which ParseFloat returns an error.
Arg(x) == [ok |-> TRUE, v |-> x]

BadArg == [ok |-> FALSE, v |-> 0]

\* Grid units per degree.
DegreeUnits == 100 * MilesPerDegree

\* h hundredths of a degree, in grid units.
Deg(h) == (h * DegreeUnits) \div 100

\* The struct handed to calculateRainbowLikelihood.  weather is the list of
\* condition ids; uvi is in tenths, visibility in metres, windSpeed in fifths
\* of a metre per second and pop in hundredths, so that every factor is a
\* whole number of hundredths.
Weather(ids, cl, hu, uv, vi, ws, pp) ==
  [weather |-> ids, clouds |-> cl, humidity |-> hu, uvi |-> uv, visibility |-> vi,
   windSpeed |-> ws, pop |-> pp]

\* Answers of the provider: rain at its best and middling, an empty condition
\* list, a clear sky, a thunderstorm at its best and middling (with a high
\* probability of precipitation), and drizzle in poor conditions.
WeatherSamples ==
  { Weather(<<500>>, 0, 100, 100, 10000, 0, 0),
    Weather(<<500>>, 50, 50, 50, 5000, 50, 80),
    Weather(<<>>, 0, 100, 100, 10000, 0, 0),
    Weather(<<800>>, 0, 100, 100, 10000, 0, 0),
    Weather(<<200>>, 0, 100, 120, 20000, 0, 60),
    Weather(<<211, 500>>, 50, 50, 50, 5000, 50, 60),
    Weather(<<300>>, 90, 30, 10, 2000, 90, 0) }

\* math.Min on two numbers.
Min2(a, b) == IF a <= b THEN a ELSE b

\* Likelihoods are numerators over OwmDen: five factors in hundredths,
\* averaged, times a boost in tenths.
OwmDen == 5 * 100 * 10

Score(x) == [panic |-> FALSE, v |-> x]

\* Indexing an empty slice: runtime error, index out of range.
OwmPanic == [panic |-> TRUE, v |-> 0]

Unsuitable(w) ==
  \/ Len(w.weather) = 0
  \/ w.weather[1] < 200
  \/ w.weather[1] >= 700

ClampNone(x) == x

\* math.Min2(likelihood, 1.0)
Clamp(x) == Min2(x, OwmDen)

\* The multiplier in tenths: 1.5 for drizzle and rain, else 1.3 for a
\* probability of precipitation above one half.
Boost(w) ==
  IF w.weather[1] >= 300 /\ w.weather[1] < 600 THEN 15
  ELSE IF w.pop > 50 THEN 13
  ELSE 10

calculateRainbowLikelihood(w) ==
  IF Unsuitable(w)
    THEN \* the log call of this branch reads weather.Weather[0].ID
         IF Len(w.weather) = 0 THEN OwmPanic ELSE Score(0)
    ELSE LET cloudFactor == 100 - w.clouds
             humidityFactor == w.humidity
             uviFactor == Min2(w.uvi, 100)
             visibilityFactor == Min2(w.visibility \div 100, 100)
             windFactor == 100 - Min2(w.windSpeed, 100)
             sum == cloudFactor + humidityFactor + uviFactor + visibilityFactor
                      + windFactor
         IN Score(Clamp(sum * Boost(w)))

\* Outcomes of one fetchWeatherData call.
OwmErrors == {"request", "status", "decode"}

OwmOutcomes == {"ok"} \cup OwmErrors

NoRequest == [path |-> "none", lat |-> BadArg, lon |-> BadArg, radius |-> BadArg,
              resolution |-> BadArg]

NoUpstream == [current |-> Weather(<<>>, 0, 0, 0, 0, 0, 0), hourly |-> <<>>]

NoBody == [kind |-> "none", data |-> <<>>]

ErrorBody(msg) == [kind |-> "error", data |-> <<[msg |-> msg]>>]

RadiusDegreesBy60(radius) == (radius * DegreeUnits) \div (100 * 60)

\* `radius / 69`: hundredths of a mile to grid units of a degree, exactly.
RadiusDegrees(radius) == (radius * DegreeUnits) \div (100 * MilesPerDegree)

\* math.Sqrt(dlat*dlat+dlon*dlon) <= radiusDegrees
WithinRadiusStrict(a, b, r) == r >= 0 /\ a * a + b * b < r * r

WithinRadius(a, b, r) == r >= 0 /\ a * a + b * b <= r * r

HeatmapRequests ==
  [path : {"/heatmap"},
   lat : {Arg(Deg(3950)), BadArg},
   lon : {Arg(Deg(-10500)), BadArg},
   radius : {BadArg, Arg(-345), Arg(0), Arg(345), Arg(483), Arg(690)},
   resolution : {BadArg, Arg(0), Arg(Deg(-5)), Arg(Deg(5)), Arg(Deg(10))}]

PredictRequests ==
  [path : {"/predict"},
   lat : {Arg(Deg(3950)), Arg(Deg(9500)), BadArg},
   lon : {Arg(Deg(-10500)), Arg(Deg(-20000)), BadArg},
   radius : {BadArg},
   resolution : {BadArg}]

HourlySeries == UNION {[1..n -> WeatherSamples] : n \in 0..MaxHourly}

\* /heatmap reads only Current of the answer, /predict only Hourly.
Upstreams(r) ==
  IF r.path = "/heatmap"
    THEN [current : WeatherSamples, hourly : {<<>>}]
    ELSE [current : {Weather(<<800>>, 0, 0, 0, 0, 0, 0)}, hourly : HourlySeries]

OwmIdle ==
  /\ req = NoRequest
  /\ upstream = NoUpstream
  /\ hpc = "idle"
  /\ status = 0
  /\ body = NoBody
  /\ calls = <<>>
  /\ radiusDegrees = 0
  /\ resolution = 0
  /\ dlat = 0
  /\ dlon = 0
  /\ heatmapData = <<>>
  /\ hourIdx = 0
  /\ owmBest = 0
  /\ owmBestTime = 0

\* `resolution, err := strconv.ParseFloat(...); if err != nil { resolution = 0.05 }`
EffectiveResolution(a) == IF a.ok THEN a.v ELSE DefaultResolution

BadRequest(msg) ==
  /\ status' = 400
  /\ body' = ErrorBody(msg)
  /\ hpc' = "done"

\* handleHeatmapData up to the first test of the outer loop.
HeatmapParse ==
  /\ hpc = "parse"
  /\ req.path = "/heatmap"
  /\ IF ~req.lat.ok
       THEN BadRequest("Invalid latitude")
            /\ UNCHANGED <<radiusDegrees, resolution, dlat, dlon>>
     ELSE IF ~req.lon.ok
       THEN BadRequest("Invalid longitude")
            /\ UNCHANGED <<radiusDegrees, resolution, dlat, dlon>>
     ELSE IF ~req.radius.ok
       THEN BadRequest("Invalid radius")
            /\ UNCHANGED <<radiusDegrees, resolution, dlat, dlon>>
     ELSE LET r == RadiusDegrees(req.radius.v)
          IN /\ resolution' = EffectiveResolution(req.resolution)
             /\ radiusDegrees' = r
             /\ dlat' = -r
             /\ dlon' = -r
             /\ hpc' = IF -r <= r THEN "loop" ELSE "encode"
             /\ UNCHANGED <<status, body>>
  /\ UNCHANGED <<req, upstream, calls, heatmapData, hourIdx, owmBest, owmBestTime>>
  /\ UNCHANGED <<clientVars, predictVars, govVars>>

\* `dlon += resolution` and the loop tests that follow it, up to the next
\* execution of the inner body or the exit of the outer loop.
Advance ==
  IF dlon + resolution <= radiusDegrees
    THEN /\ dlon' = dlon + resolution
         /\ UNCHANGED dlat
         /\ hpc' = "loop"
    ELSE /\ dlat' = dlat + resolution
         /\ dlon' = IF dlat + resolution <= radiusDegrees
                      THEN -radiusDegrees
                      ELSE dlon + resolution
         /\ hpc' = IF dlat + resolution <= radiusDegrees THEN "loop" ELSE "encode"

\* One execution of the inner loop body at offset (dlat, dlon); o is the
\* outcome of fetchWeatherData should the body call it.  A loop whose step
\* is not positive never ends: it is followed for MaxCalls calls and down to
\* the offset -MaxOffset.
HeatmapVisit(o) ==
  /\ hpc = "loop"
  /\ resolution > 0 \/ (Len(calls) < MaxCalls /\ dlon >= -MaxOffset)
  /\ LET pointLat == req.lat.v + dlat
         pointLon == req.lon.v + dlon
         within == WithinRadius(dlat, dlon, radiusDegrees)
         likelihood == calculateRainbowLikelihood([upstream.current EXCEPT !.pop = 0])
     IN /\ calls' = IF within
                      THEN Append(calls, [lat |-> pointLat, lon |-> pointLon,
                                          ok |-> o = "ok"])
                      ELSE calls
        /\ IF within /\ o = "ok"
             THEN IF likelihood.panic
                    THEN /\ hpc' = "panicked"
                         /\ UNCHANGED <<heatmapData, dlat, dlon>>
                    ELSE /\ heatmapData' =
                              Append(heatmapData, [lat |-> pointLat, lon |-> pointLon,
                                                   likelihood |-> likelihood.v])
                         /\ Advance
             ELSE /\ UNCHANGED heatmapData
                  /\ Advance
  /\ UNCHANGED <<req, upstream, status, body, radiusDegrees, resolution, hourIdx,
                 owmBest, owmBestTime>>
  /\ UNCHANGED <<clientVars, predictVars, govVars>>

\* json.NewEncoder(w).Encode(heatmapData): a slice never appended to is nil
\* and is written as null.
HeatmapEncode ==
  /\ hpc = "encode"
  /\ status' = 200
  /\ body' = [kind |-> IF heatmapData = <<>> THEN "null" ELSE "array",
              data |-> heatmapData]
  /\ hpc' = "done"
  /\ UNCHANGED <<req, upstream, calls, radiusDegrees, resolution, dlat, dlon,
                 heatmapData, hourIdx, owmBest, owmBestTime>>
  /\ UNCHANGED <<clientVars, predictVars, govVars>>

\* handlePrediction of src/main.go up to the call of fetchWeatherData.
OwmPredictParse ==
  /\ hpc = "parse"
  /\ req.path = "/predict"
  /\ IF ~req.lat.ok
       THEN BadRequest("Invalid latitude")
     ELSE IF ~req.lon.ok
       THEN BadRequest("Invalid longitude")
     ELSE /\ hpc' = "fetch"
          /\ UNCHANGED <<status, body>>
  /\ UNCHANGED <<req, upstream, calls, radiusDegrees, resolution, dlat, dlon,
                 heatmapData, hourIdx, owmBest, owmBestTime>>
  /\ UNCHANGED <<clientVars, predictVars, govVars>>

OwmPredictFetch(o) ==
  /\ hpc = "fetch"
  /\ calls' = Append(calls, [lat |-> req.lat.v, lon |-> req.lon.v, ok |-> o = "ok"])
  /\ IF o = "ok"
       THEN /\ hpc' = "scan"
            /\ UNCHANGED <<status, body>>
       ELSE /\ status' = 500
            /\ body' = ErrorBody("Error fetching weather data")
            /\ hpc' = "done"
  /\ UNCHANGED <<req, upstream, radiusDegrees, resolution, dlat, dlon, heatmapData,
                 hourIdx, owmBest, owmBestTime>>
  /\ UNCHANGED <<clientVars, predictVars, govVars>>

\* One iteration of `for _, hourly := range weatherData.Hourly`; Dt of an
\* entry is its position.
OwmPredictScan ==
  /\ hpc = "scan"
  /\ hourIdx < Len(upstream.hourly)
  /\ LET likelihood == calculateRainbowLikelihood(upstream.hourly[hourIdx + 1])
     IN IF likelihood.panic
          THEN /\ hpc' = "panicked"
               /\ UNCHANGED <<hourIdx, owmBest, owmBestTime>>
          ELSE /\ hourIdx' = hourIdx + 1
               /\ hpc' = "scan"
               /\ IF likelihood.v > owmBest
                    THEN /\ owmBest' = likelihood.v
                         /\ owmBestTime' = hourIdx + 1
                    ELSE UNCHANGED <<owmBest, owmBestTime>>
  /\ UNCHANGED <<req, upstream, status, body, calls, radiusDegrees, resolution, dlat,
                 dlon, heatmapData>>
  /\ UNCHANGED <<clientVars, predictVars, govVars>>

OwmPredictRespond ==
  /\ hpc = "scan"
  /\ hourIdx = Len(upstream.hourly)
  /\ status' = 200
  /\ body' = [kind |-> "prediction",
              data |-> <<[likelihood |-> owmBest,
                          location |-> <<req.lat.v, req.lon.v>>,
                          time |-> owmBestTime]>>]
  /\ hpc' = "done"
  /\ UNCHANGED <<req, upstream, calls, radiusDegrees, resolution, dlat, dlon,
                 heatmapData, hourIdx, owmBest, owmBestTime>>
  /\ UNCHANGED <<clientVars, predictVars, govVars>>

\* Requests for whole grids, the one of radius 20 miles and step 0.05 degree
\* among them, served while every fetchWeatherData call succeeds.
LatticeRequests ==
  [path : {"/heatmap"},
   lat : {Arg(Deg(3950))},
   lon : {Arg(Deg(-10500))},
   radius : {Arg(345), Arg(690), Arg(2000)},
   resolution : {BadArg, Arg(Deg(5)), Arg(Deg(10))}]

NextLattice ==
  \/ HeatmapParse
  \/ HeatmapVisit("ok")
  \/ HeatmapEncode

NextOwm ==
  \/ HeatmapParse
  \/ \E o \in OwmOutcomes : HeatmapVisit(o)
  \/ HeatmapEncode
  \/ OwmPredictParse
  \/ \E o \in OwmOutcomes : OwmPredictFetch(o)
  \/ OwmPredictScan
  \/ OwmPredictRespond

\* =====================================================================
\* Properties of Part III
\* =====================================================================

Heatmap == req.path = "/heatmap"

OwmPredict == req.path = "/predict"

\* Offset of a call or of an emitted point from the centre of the request.
OffsetOf(p) == <<p.lat - req.lat.v, p.lon - req.lon.v>>

NormWithin(off) == off[1] * off[1] + off[2] * off[2] <= radiusDegrees * radiusDegrees

\* The values dlat and dlon take when the step is positive.
GridLine ==
  {-radiusDegrees + k * resolution : k \in 0..((2 * radiusDegrees) \div resolution)}

\* The offsets whose inner body has been executed, in a loop with a positive
\* step.
Visited ==
  IF hpc \in {"encode", "done"}
    THEN GridLine \X GridLine
    ELSE {off \in GridLine \X GridLine :
            \/ off[1] < dlat
            \/ off[1] = dlat /\ off[2] < dlon
            \/ off = <<dlat, dlon>> /\ hpc = "panicked"}

InLoopOrAfter ==
  /\ Heatmap
  /\ hpc \in {"loop", "encode", "panicked"} \/ (hpc = "done" /\ status = 200)

\* C11: handleHeatmapData fetches and emits only at offsets whose norm is at
\* most radiusDegrees, and fetches at every visited offset whose norm is at
\* most radiusDegrees, the offsets at exactly that distance included; the
\* corner of the square, farther away, is never fetched nor emitted.
C11_OnlyWithinRadius ==
  InLoopOrAfter =>
    /\ \A k \in 1..Len(calls) : NormWithin(OffsetOf(calls[k]))
    /\ \A k \in 1..Len(heatmapData) : NormWithin(OffsetOf(heatmapData[k]))
    /\ resolution > 0 =>
         \A off \in Visited :
           NormWithin(off) => \E k \in 1..Len(calls) : OffsetOf(calls[k]) = off
    /\ radiusDegrees > 0 =>
         /\ \A k \in 1..Len(calls) :
              OffsetOf(calls[k]) # <<-radiusDegrees, -radiusDegrees>>
         /\ \A k \in 1..Len(heatmapData) :
              OffsetOf(heatmapData[k]) # <<-radiusDegrees, -radiusDegrees>>

\* A finished request whose grid has offsets at exactly the radius: the one
\* due north of the centre was fetched and emitted, the corners were visited
\* and left out.
C11_BoundaryPointEmitted ==
  /\ Heatmap
  /\ hpc = "done"
  /\ status = 200
  /\ radiusDegrees = Deg(10)
  /\ resolution = Deg(5)
  /\ \E k \in 1..Len(heatmapData) : OffsetOf(heatmapData[k]) = <<Deg(10), 0>>
  /\ <<Deg(-10), Deg(-10)>> \in Visited

Succeeded == SelectSeq(calls, LAMBDA c : c.ok)

Place(p) == <<p.lat, p.lon>>

\* C12: a failed fetch of a grid point never aborts the request: the handler
\* goes on to the end of the grid, answers 200, and its output is exactly
\* the points whose fetch succeeded, in the order of enumeration.
\* (Violated: a fetch that succeeds with an empty condition list panics in
\* calculateRainbowLikelihood, so the request ends with no status and no
\* output.)
C12_FailedFetchNeverAborts ==
  (Heatmap /\ \E k \in 1..Len(calls) : ~calls[k].ok) =>
    /\ hpc # "panicked"
    /\ hpc = "done" =>
         /\ status = 200
         /\ Len(body.data) = Len(Succeeded)
         /\ \A k \in 1..Len(Succeeded) : Place(body.data[k]) = Place(Succeeded[k])

\* C13: a resolution that is missing, invalid, zero or negative is replaced
\* by the default step, so the grid loops run with a positive step and end.
\* (Violated: zero and negative values parse without error and are kept.)
C13_NonPositiveResolutionDefaulted ==
  (InLoopOrAfter /\ (~req.resolution.ok \/ req.resolution.v <= 0)) =>
    resolution = DefaultResolution

\* C14: scoring weather whose condition list is empty gives 0 and does not
\* panic, on the /predict and on the /heatmap path.
\* (Violated: the branch taken for an empty list reads its first element.)
C14_EmptyConditionsScoreZero ==
  /\ hpc # "panicked"
  /\ (Heatmap /\ upstream.current.weather = <<>>) =>
       /\ Len(heatmapData) = Len(Succeeded)
       /\ \A k \in 1..Len(heatmapData) : heatmapData[k].likelihood = 0

InBounds(a, lo, hi) == a.ok /\ lo <= a.v /\ a.v <= hi

\* C15: /predict answers 400 and issues no upstream request when a
\* coordinate is missing, unparseable, or out of bounds (latitude outside
\* [-90, 90], longitude outside [-180, 180]).
\* (Violated: handlePrediction of src/main.go tests no bounds.)
C15_BadCoordinatesNeverFetched ==
  (OwmPredict /\ ~(InBounds(req.lat, Deg(-9000), Deg(9000))
                   /\ InBounds(req.lon, Deg(-18000), Deg(18000)))) =>
    /\ calls = <<>>
    /\ hpc = "done" => status = 400

\* C16: calculateRainbowLikelihood stays within [0, 1] on a non-empty
\* condition list, the 1.5 and 1.3 boosts included, so every likelihood of a
\* heatmap point and of a prediction is within [0, 1].
C16_OwmLikelihoodInUnitInterval ==
  /\ \A k \in 1..Len(heatmapData) : heatmapData[k].likelihood \in 0..OwmDen
  /\ owmBest \in 0..OwmDen
  /\ body.kind = "prediction" => body.data[1].likelihood \in 0..OwmDen
  /\ \A k \in 1..Len(upstream.hourly) :
       upstream.hourly[k].weather # <<>> =>
         calculateRainbowLikelihood(upstream.hourly[k]).v \in 0..OwmDen

\* A prediction whose best hour is a thunderstorm with a high probability of
\* precipitation: five full factors times 1.3, returned as exactly 1.
C16_BoostedScoreClamped ==
  /\ OwmPredict
  /\ hpc = "done"
  /\ body.kind = "prediction"
  /\ body.data[1].likelihood = OwmDen
  /\ upstream.hourly[body.data[1].time].weather = <<200>>
  /\ upstream.hourly[body.data[1].time].pop > 50

\* C24: when no point is emitted, /heatmap still answers 200 with an empty
\* JSON array, neither null nor an error payload.
\* (Violated: the slice never appended to is nil and is encoded as null.)
C24_EmptyOutputIsArray ==
  (Heatmap /\ hpc = "done" /\ req.lat.ok /\ req.lon.ok /\ req.radius.ok
     /\ heatmapData = <<>>) =>
    /\ status = 200
    /\ body.kind = "array"
    /\ body.data = <<>>

\* /heatmap?lat=39.5&lon=-105&radius=20&resolution=0.05
RadiusTwenty ==
  /\ Heatmap
  /\ req.radius = Arg(2000)
  /\ req.resolution = Arg(Deg(5))

\* -radiusDegrees + 0.05 * k for k = 0..11, with radiusDegrees = 20/69.
TwelveOffsets == [k \in 1..12 |-> -2000 + 345 * (k - 1)]

\* The 12 x 12 lattice in the order of enumeration, and its circular subset.
TwelveByTwelve ==
  [n \in 1..144 |-> <<TwelveOffsets[((n - 1) \div 12) + 1], TwelveOffsets[((n - 1) % 12) + 1]>>]

CircularSubset ==
  SelectSeq(TwelveByTwelve, LAMBDA off : off[1] * off[1] + off[2] * off[2] <= 2000 * 2000)

\* C25: for radius 20 and resolution 0.05 the loops take exactly the 12
\* offsets -20/69 + 0.05 k (k = 0..11) on each axis, the calls go to the
\* lattice points within the radius in the order of enumeration, and with
\* every fetch succeeding the answer holds exactly these points, each at
\* centre + offset.
C25_TwelveByTwelveLattice ==
  (RadiusTwenty /\ hpc \in {"loop", "encode", "panicked", "done"}) =>
    /\ radiusDegrees = 2000
    /\ hpc = "loop" =>
         /\ \E k \in 1..12 : dlat = TwelveOffsets[k]
         /\ \E k \in 1..12 : dlon = TwelveOffsets[k]
    /\ Len(calls) <= Len(CircularSubset)
    /\ \A k \in 1..Len(calls) : OffsetOf(calls[k]) = CircularSubset[k]
    /\ hpc \in {"encode", "done"} =>
         /\ Visited = {TwelveByTwelve[n] : n \in 1..144}
         /\ Len(heatmapData) = Len(CircularSubset)
         /\ \A k \in 1..Len(heatmapData) :
              /\ heatmapData[k].lat = req.lat.v + CircularSubset[k][1]
              /\ heatmapData[k].lon = req.lon.v + CircularSubset[k][2]
    /\ hpc = "done" =>
         /\ status = 200
         /\ body = [kind |-> "array", data |-> heatmapData]

\* The answer for radius 20 and resolution 0.05: 104 points, the first at
\* offset (-1655, -965)/6900 and the last at (1795, 760)/6900 of a degree.
C25_RadiusTwentyAnswered ==
  /\ RadiusTwenty
  /\ hpc = "done"
  /\ Len(body.data) = 104
  /\ OffsetOf(body.data[1]) = <<-1655, -965>>
  /\ OffsetOf(body.data[104]) = <<1795, 760>>

\* =====================================================================
\* Part IV: handlePrediction of the caching weather.gov variant
\* =====================================================================

NoMetadata == [forecastHourly |-> ""]

\* PointMetadata as the provider delivers it: with the hourly forecast URL
\* or without it.
Metadatas == {[forecastHourly |-> ""], [forecastHourly |-> "forecastHourly"]}

NoHerr == [msg |-> "nil", wraps |-> Nil]

\* fmt.Errorf("error fetching point metadata: %w", err)
MetadataError(e) == [msg |-> "error fetching point metadata", wraps |-> e]

\* fmt.Errorf("hourly forecast URL not available")
ConfigError == [msg |-> "hourly forecast URL not available", wraps |-> Nil]

\* fmt.Errorf("error fetching hourly forecast: %w", err)
ForecastError(e) == [msg |-> "error fetching hourly forecast", wraps |-> e]

ErrIsNilAlways(e) == TRUE

\* `if err != nil { ...; return }` of the handler falls through on nil.
ErrIsNil(e) == e = NoHerr

URLMissingNever(u) == FALSE

\* if forecastURL == ""
URLMissing(u) == u = ""

\* lat < 37 || lat > 41 || lon < -109 || lon > -102
OutsideColorado(lat, lon) ==
  lat < Deg(3700) \/ lat > Deg(4100) \/ lon < Deg(-10900) \/ lon > Deg(-10200)

GovRequests ==
  [path : {"/predict"},
   lat : {Arg(Deg(3950)), Arg(Deg(4200)), BadArg},
   lon : {Arg(Deg(-10500)), Arg(Deg(-9000)), BadArg},
   radius : {BadArg},
   resolution : {BadArg}]

\* The hourly forecasts the provider delivers.
GovSeries == {s \in Series : Len(s) <= 1}

GovIdle ==
  /\ metadata = NoMetadata
  /\ herr = NoHerr

\* What stays as it is in every step of the handler outside the fetch
\* functions and predictRainbow.
OwmLocals == <<upstream, calls, radiusDegrees, resolution, dlat, dlon, heatmapData,
               hourIdx, owmBest, owmBestTime>>

\* The server hands a request to handlePrediction.
GovAccept(r) ==
  /\ hpc = "idle"
  /\ req' = r
  /\ hpc' = "parse"
  /\ UNCHANGED <<status, body, OwmLocals, govVars, clientVars, predictVars>>

\* handlePrediction up to the call of fetchPointMetadata.
GovParse ==
  /\ hpc = "parse"
  /\ IF ~req.lat.ok
       THEN BadRequest("Invalid latitude")
     ELSE IF ~req.lon.ok
       THEN BadRequest("Invalid longitude")
     ELSE IF OutsideColorado(req.lat.v, req.lon.v)
       THEN BadRequest("Coordinates are outside of Colorado")
     ELSE /\ hpc' = "metadata"
          /\ UNCHANGED <<status, body>>
  /\ UNCHANGED <<req, OwmLocals, govVars, clientVars, predictVars>>

\* fetchPointMetadata calls fetchJSONWithRetry(url, &metadata, 3).
GovCallPoints ==
  /\ hpc = "metadata"
  /\ Call(1, "points")

\* The frame of a finished fetchJSONWithRetry call is dropped.
DropFrame ==
  /\ pc' = [pc EXCEPT ![1] = "idle"]
  /\ url' = [url EXCEPT ![1] = "points"]
  /\ i' = [i EXCEPT ![1] = 0]
  /\ err' = [err EXCEPT ![1] = NoErr]
  /\ entry' = [entry EXCEPT ![1] = NoEntry]
  /\ target' = [target EXCEPT ![1] = "zero"]
  /\ result' = [result EXCEPT ![1] = NotReturned]
  /\ look' = [look EXCEPT ![1] = "none"]
  /\ reqs' = [reqs EXCEPT ![1] = 0]
  /\ outs' = [outs EXCEPT ![1] = <<>>]
  /\ slept' = [slept EXCEPT ![1] = <<>>]

KeepFrame == UNCHANGED <<pc, url, i, err, entry, target, result, look, reqs, outs, slept>>

\* http.Error(w, "Error fetching weather data", http.StatusInternalServerError)
ServerError ==
  /\ status' = 500
  /\ body' = ErrorBody("Error fetching weather data")
  /\ hpc' = "done"

\* fetchPointMetadata returns to handlePrediction, which tests err; md is the
\* metadata the provider's answer decoded to.  A panic of the call unwinds
\* the handler.
GovMetadataReturn(md) ==
  /\ hpc = "metadata"
  /\ pc[1] = "done"
  /\ IF result[1] = Panicked
       THEN /\ hpc' = "panicked"
            /\ KeepFrame
            /\ UNCHANGED <<status, body, metadata, herr>>
       ELSE LET e == IF result[1] = Nil THEN NoHerr ELSE MetadataError(result[1])
            IN /\ herr' = e
               /\ IF ErrIsNil(e)
                    THEN /\ metadata' = md
                         /\ hpc' = "fetchForecast"
                         /\ DropFrame
                         /\ UNCHANGED <<status, body>>
                    ELSE /\ ServerError
                         /\ KeepFrame
                         /\ UNCHANGED metadata
  /\ UNCHANGED <<req, OwmLocals, cache, now, readerCount, wOwner, predictVars>>

\* fetchForecast is entered: the test of the hourly forecast URL.
GovFetchForecast ==
  /\ hpc = "fetchForecast"
  /\ IF URLMissing(metadata.forecastHourly)
       THEN /\ herr' = ConfigError
            /\ ServerError
       ELSE /\ hpc' = "forecast"
            /\ UNCHANGED <<status, body, herr>>
  /\ UNCHANGED <<req, OwmLocals, metadata, clientVars, predictVars>>

\* fetchForecast calls fetchJSONWithRetry(forecastURL, &forecast, 3).
GovCallForecast ==
  /\ hpc = "forecast"
  /\ \E u \in URLs : u = metadata.forecastHourly /\ Call(1, u)

\* fetchForecast returns to handlePrediction, which tests err; s is the
\* forecast the provider's answer decoded to.
GovForecastReturn(s) ==
  /\ hpc = "forecast"
  /\ pc[1] = "done"
  /\ IF result[1] = Panicked
       THEN /\ hpc' = "panicked"
            /\ KeepFrame
            /\ UNCHANGED <<status, body, herr, forecast>>
       ELSE LET e == IF result[1] = Nil THEN NoHerr ELSE ForecastError(result[1])
            IN /\ herr' = e
               /\ IF ErrIsNil(e)
                    THEN /\ forecast' = s
                         /\ hpc' = "predict"
                         /\ DropFrame
                         /\ UNCHANGED <<status, body>>
                    ELSE /\ ServerError
                         /\ KeepFrame
                         /\ UNCHANGED forecast
  /\ UNCHANGED <<req, OwmLocals, metadata, cache, now, readerCount, wOwner, idx,
                 bestLikelihood, bestTime, prediction>>

\* predictRainbow(forecast, lat, lon)
GovScanPeriod ==
  /\ hpc = "predict"
  /\ ScanPeriod

GovReturnPrediction ==
  /\ hpc = "predict"
  /\ ReturnPrediction

\* json.NewEncoder(w).Encode(prediction)
GovEncode ==
  /\ hpc = "predict"
  /\ prediction # NoPrediction
  /\ status' = 200
  /\ body' = [kind |-> "prediction", data |-> <<prediction>>]
  /\ hpc' = "done"
  /\ UNCHANGED <<req, OwmLocals, govVars, clientVars, predictVars>>

\* The handler is over (returned, or unwound by a panic that net/http
\* recovers); the server is ready for the next request.  The cache stays.
GovFinish ==
  /\ hpc \in {"done", "panicked"}
  /\ hpc' = "idle"
  /\ req' = NoRequest
  /\ status' = 0
  /\ body' = NoBody
  /\ metadata' = NoMetadata
  /\ herr' = NoHerr
  /\ DropFrame
  /\ forecast' = <<>>
  /\ idx' = 0
  /\ bestLikelihood' = 0
  /\ bestTime' = ZeroTime
  /\ prediction' = NoPrediction
  /\ UNCHANGED <<OwmLocals, cache, now, readerCount, wOwner>>

NextGov ==
  \/ \E r \in GovRequests : GovAccept(r)
  \/ GovParse
  \/ GovCallPoints
  \/ \E md \in Metadatas : GovMetadataReturn(md)
  \/ GovFetchForecast
  \/ GovCallForecast
  \/ \E s \in GovSeries : GovForecastReturn(s)
  \/ RLock(1)
  \/ Lookup(1)
  \/ Hit(1)
  \/ \E o \in {"ok"} \cup FetchErrors : Fetch(1, o)
  \/ LockRequest(1)
  \/ LockEnter(1)
  \/ InsertData(1)
  \/ InsertExpiry(1)
  \/ RetryCheck(1)
  \/ Sleep(1)
  \/ GovScanPeriod
  \/ GovReturnPrediction
  \/ GovEncode
  \/ GovFinish
  \/ Tick

\* =====================================================================
\* Properties of Part IV
\* =====================================================================

MetadataFailed == hpc = "done" /\ herr.msg = "error fetching point metadata"

ForecastFailed ==
  /\ hpc = "done"
  /\ herr.msg \in {"hourly forecast URL not available", "error fetching hourly forecast"}

\* C18: when the provider answers 404 for the coordinate, fetchPointMetadata
\* fails at once with an error of its own, not the one of exhausted retries;
\* it fails with the exhausted-retries error only after 3 attempts that met
\* other failures.
\* (Violated: a 404 is retried like every other failure and comes back as
\* the same exhausted-retries error.)
C18_NotFoundDistinguished ==
  MetadataFailed =>
    IF \E k \in 1..Len(outs[1]) : outs[1][k] = "status404"
      THEN /\ Last(outs[1]) = "status404"
           /\ ~\E k \in 1..(Len(outs[1]) - 1) : outs[1][k] = "status404"
           /\ herr.wraps.msg # "max retries reached"
      ELSE /\ herr.wraps.msg = "max retries reached"
           /\ Len(outs[1]) = 3

\* C19: when fetchPointMetadata fails the handler answers 500 and has not
\* called fetchForecast; when fetchForecast fails it answers 500; either way
\* the body is the error text, no prediction, and predictRainbow has not run.
C19_FetchFailureAnswers500 ==
  /\ herr # NoHerr =>
       /\ hpc = "done"
       /\ status = 500
       /\ body = ErrorBody("Error fetching weather data")
       /\ forecast = <<>> /\ idx = 0 /\ prediction = NoPrediction
  /\ MetadataFailed =>
       /\ url[1] = "points"
       /\ metadata = NoMetadata
  /\ hpc \in {"fetchForecast", "forecast", "predict"} => herr = NoHerr
  /\ (hpc = "done" /\ status = 500) => herr # NoHerr

\* The metadata came in, then all three attempts at the hourly forecast
\* failed.
C19_ForecastFetchFailed ==
  /\ hpc = "done"
  /\ status = 500
  /\ herr.msg = "error fetching hourly forecast"
  /\ url[1] = "forecastHourly"
  /\ Len(outs[1]) = 3
  /\ cache["points"] # NoEntry

\* C20: fetchForecast on metadata without an hourly forecast URL returns the
\* configuration error in one step: no fetch attempt, no retry, no sleep, and
\* the cache as it was.  (The step of fetchForecast is the one that leaves
\* its entry point; the clock may tick before it.)
C20_EmptyURLFailsAtOnce ==
  [][(hpc = "fetchForecast" /\ metadata.forecastHourly = "" /\ hpc' # hpc) =>
       /\ herr' = ConfigError
       /\ hpc' = "done"
       /\ UNCHANGED <<cache, pc, reqs, outs, slept>>
       /\ pc[1] = "idle" /\ reqs[1] = 0 /\ outs[1] = <<>> /\ slept[1] = <<>>]_vars

\* The configuration error was returned: the cache holds the metadata entry
\* and nothing else, and nothing was requested on behalf of the forecast.
C20_ConfigErrorReturned ==
  /\ hpc = "done"
  /\ herr = ConfigError
  /\ status = 500
  /\ cache["points"] # NoEntry
  /\ cache["forecastHourly"] = NoEntry
  /\ reqs[1] = 0

\* Each part runs while the others are at rest.
InitClient == ClientIdle /\ PredictIdle /\ OwmIdle /\ GovIdle

\* predictRainbow(forecast, lat, lon) is entered: var bestLikelihood float64;
\* var bestTime time.Time
InitPredict ==
  /\ ClientIdle
  /\ OwmIdle
  /\ GovIdle
  /\ forecast \in Series
  /\ idx = 0
  /\ bestLikelihood = 0
  /\ bestTime = ZeroTime
  /\ prediction = NoPrediction

\* One request has arrived at the OpenWeatherMap server.
InitOwm ==
  /\ ClientIdle
  /\ PredictIdle
  /\ GovIdle
  /\ req \in HeatmapRequests \cup PredictRequests
  /\ upstream \in Upstreams(req)
  /\ hpc = "parse"
  /\ status = 0
  /\ body = NoBody
  /\ calls = <<>>
  /\ radiusDegrees = 0
  /\ resolution = 0
  /\ dlat = 0
  /\ dlon = 0
  /\ heatmapData = <<>>
  /\ hourIdx = 0
  /\ owmBest = 0
  /\ owmBestTime = 0

\* One request for a whole grid has arrived.
InitLattice ==
  /\ ClientIdle
  /\ PredictIdle
  /\ GovIdle
  /\ req \in LatticeRequests
  /\ upstream \in Upstreams(req)
  /\ hpc = "parse"
  /\ status = 0
  /\ body = NoBody
  /\ calls = <<>>
  /\ radiusDegrees = 0
  /\ resolution = 0
  /\ dlat = 0
  /\ dlon = 0
  /\ heatmapData = <<>>
  /\ hourIdx = 0
  /\ owmBest = 0
  /\ owmBestTime = 0

SpecClient == InitClient /\ [][NextClient]_vars

SpecRetry == InitClient /\ [][NextRetry]_vars

\* A runnable goroutine is eventually scheduled; a goroutine blocked in
\* RLock or Lock is eventually served when the lock is free again and again
\* (sync.Mutex hands the lock to a waiter that has been starved).
ClientFairness ==
  \A p \in Procs :
    /\ WF_vars(Lookup(p))
    /\ WF_vars(Hit(p))
    /\ WF_vars(\E o \in {"ok"} \cup ConcurrentErrors : Fetch(p, o))
    /\ WF_vars(LockEnter(p))
    /\ WF_vars(InsertData(p))
    /\ WF_vars(InsertExpiry(p))
    /\ WF_vars(RetryCheck(p))
    /\ WF_vars(Sleep(p))
    /\ WF_vars(Return(p))
    /\ SF_vars(RLock(p))
    /\ SF_vars(LockRequest(p))

SpecClientFair == InitClient /\ [][NextClient]_vars /\ ClientFairness

SpecPredict == InitPredict /\ [][NextPredict]_vars

SpecOwm == InitOwm /\ [][NextOwm]_vars

SpecLattice == InitLattice /\ [][NextLattice]_vars

SpecGov == InitClient /\ [][NextGov]_vars

====
